---- MODULE Spec2Model ----
(***************************************************************************)
(* Corridor and CorridorSequence of src/src/corridor.cpp.                  *)
(*                                                                         *)
(* RealType values are integers on a fixed-point grid.  Every world the    *)
(* model builds keeps the arithmetic of the code exact on that grid        *)
(* (boundary deviations are even and boundary slopes are even integers),   *)
(* so `* 0.5` and the linear interpolation of a boundary lose nothing.     *)
(*                                                                         *)
(* The reference line (cs::CubicSpline) and the boundaries                 *)
(* (FrenetPolyline) are collaborators whose code is not part of            *)
(* corridor.cpp; they are modelled from their documented contracts.        *)
(***************************************************************************)
EXTENDS Integers, Sequences, FiniteSets, TLC

VARIABLES
    corridor,        \* the Corridor under test: referenceLine_, leftBound_, rightBound_
    built,           \* how `corridor` was constructed: [ctor, dl, dr]
    corridor_map,    \* CorridorSequence::corridor_map_ : sorted <<[first, second]>>
    pc,              \* position of the running call
    ret,             \* value returned by the last finished call
    delta_l,         \* fillCartesianPolylines: argument delta_l
    query_l,         \* fillCartesianPolylines: local query_l
    reference_line,  \* fillCartesianPolylines: *reference_line
    left_boundary,   \* fillCartesianPolylines: *left_boundary
    right_boundary,  \* fillCartesianPolylines: *right_boundary
    proj,            \* local arc-length of the queried position on each corridor
                     \* the call has projected it onto so far
    start,           \* index of the corridor get(start_arc_length) selected
    iter,            \* getFrenetPositionWithFrame(position, iter): iter
    hops             \* recursive calls made by the call (saturates at MaxHops)

vars == <<corridor, built, corridor_map, pc, ret, delta_l, query_l,
          reference_line, left_boundary, right_boundary,
          proj, start, iter, hops>>

(***************************************************************************)
(* Bounds of the model.                                                    *)
(***************************************************************************)
MaxStep == 7         \* delta_l ranges over 1..MaxStep
ArcMargin == 2       \* arc-lengths are queried from -ArcMargin to length + ArcMargin
MaxCorridors == 3    \* corridors in a CorridorSequence
MaxHops == 7         \* the ghost counter `hops` saturates here

Abs(x) == IF x < 0 THEN -x ELSE x
Last(s) == s[Len(s)]
NoRet == [op |-> "none"]

(***************************************************************************)
(* FrenetPolyline: an ordered list of nodes <<arc_length, deviation>>.     *)
(***************************************************************************)
FrenetPolyline(num_pts) == [i \in 1..num_pts |-> <<0, 0>>]

\* SetPoint(i, pt) with the 0-based index of the code
SetPoint(poly, i, pt) == [poly EXCEPT ![i + 1] = pt]

RECURSIVE Segment(_, _, _)
\* index of the first node at or after arc_length, searched from node k
Segment(poly, arc_length, k) ==
    IF poly[k][1] >= arc_length THEN k ELSE Segment(poly, arc_length, k + 1)

\* deviationAt: piecewise linear between the nodes, clamped to the nearest
\* end node outside the nodes' arc-length range
deviationAt(poly, arc_length) ==
    IF arc_length <= poly[1][1] THEN poly[1][2]
    ELSE IF arc_length >= Last(poly)[1] THEN Last(poly)[2]
    ELSE LET k  == Segment(poly, arc_length, 1)
             p0 == poly[k - 1]
             p1 == poly[k]
         IN  p0[2] + ((p1[2] - p0[2]) * (arc_length - p0[1])) \div (p1[1] - p0[1])

(***************************************************************************)
(* cs::CubicSpline: the reference line.  Its nodes lie on the x axis of    *)
(* the Cartesian plane, so the arc-length of a node is its distance from   *)
(* the first node; explicit end tangents are kept with the spline.         *)
(***************************************************************************)
CubicSpline(id, pts, tangents) ==
    [id       |-> id,
     x0       |-> pts[1][1],
     arcs     |-> [i \in 1..Len(pts) |-> pts[i][1] - pts[1][1]],
     tangents |-> tangents]

GetSize(spline) == Len(spline.arcs)
GetArclengthAtIndex(spline, i) == spline.arcs[i + 1]
GetTotalLength(spline) == Last(spline.arcs)

\* a Cartesian point <<x, y>> has arc-length x - x0 and deviation y
toFrenetPolyline(spline, pts) ==
    [i \in 1..Len(pts) |-> <<pts[i][1] - spline.x0, pts[i][2]>>]

\* position and normal of the reference line at an arc-length (symbolic)
GetPositionAt(spline, arc_length) == [id |-> spline.id, at |-> arc_length]
GetNormalVectorAt(spline, arc_length) == [id |-> spline.id, at |-> arc_length]
\* the Cartesian point position + d * normal
Displaced(position, d, normal) == [position |-> position, d |-> d, normal |-> normal]

(***************************************************************************)
(* Corridor: the four constructors.                                        *)
(***************************************************************************)
RECURSIVE SetFixedDistance(_, _, _, _)
\* for (int i = 0; i < num_pts; i++) bound.SetPoint(i, {arc_length, d})
SetFixedDistance(bound, referenceLine, d, i) ==
    IF i < GetSize(referenceLine)
    THEN SetFixedDistance(
             SetPoint(bound, i, <<GetArclengthAtIndex(referenceLine, i), d>>),
             referenceLine, d, i + 1)
    ELSE bound

\* the right distance stored without its sign flipped
FixedBoundsUnsigned(referenceLine, distance_left_boundary, distance_right_boundary) ==
    LET num_pts == GetSize(referenceLine)
    IN  [referenceLine_ |-> referenceLine,
         leftBound_  |-> SetFixedDistance(FrenetPolyline(num_pts), referenceLine,
                                          distance_left_boundary, 0),
         rightBound_ |-> SetFixedDistance(FrenetPolyline(num_pts), referenceLine,
                                          distance_right_boundary, 0)]

\* the boundaries of the two fixed-distance constructors
FixedBounds(referenceLine, distance_left_boundary, distance_right_boundary) ==
    LET num_pts == GetSize(referenceLine)
    IN  [referenceLine_ |-> referenceLine,
         leftBound_  |-> SetFixedDistance(FrenetPolyline(num_pts), referenceLine,
                                          distance_left_boundary, 0),
         rightBound_ |-> SetFixedDistance(FrenetPolyline(num_pts), referenceLine,
                                          -distance_right_boundary, 0)]

CorridorFixed(id, reference_line_pts, dl, dr) ==
    FixedBounds(CubicSpline(id, reference_line_pts, <<>>), dl, dr)

CorridorFixedTangents(id, reference_line_pts, first_tangent, last_tangent, dl, dr) ==
    FixedBounds(CubicSpline(id, reference_line_pts, <<first_tangent, last_tangent>>),
                dl, dr)

CorridorBoundaries(id, reference_line_pts, left_boundary_pts, right_boundary_pts) ==
    LET referenceLine == CubicSpline(id, reference_line_pts, <<>>)
    IN  [referenceLine_ |-> referenceLine,
         leftBound_  |-> toFrenetPolyline(referenceLine, left_boundary_pts),
         rightBound_ |-> toFrenetPolyline(referenceLine, right_boundary_pts)]

CorridorBoundariesTangents(id, reference_line_pts, first_tangent, last_tangent, left_boundary_pts, right_boundary_pts) ==
    LET referenceLine == CubicSpline(id, reference_line_pts,
                                     <<first_tangent, last_tangent>>)
    IN  [referenceLine_ |-> referenceLine,
         leftBound_  |-> toFrenetPolyline(referenceLine, left_boundary_pts),
         rightBound_ |-> toFrenetPolyline(referenceLine, right_boundary_pts)]

(***************************************************************************)
(* Corridor: the queries.                                                  *)
(***************************************************************************)
signedDistancesAt(c, arc_length) ==
    <<deviationAt(c.leftBound_, arc_length), deviationAt(c.rightBound_, arc_length)>>

\* the width as left minus right, without std::abs
widthAtDifference(c, arc_length) ==
    deviationAt(c.leftBound_, arc_length) - deviationAt(c.rightBound_, arc_length)

widthAt(c, arc_length) ==
    deviationAt(c.leftBound_, arc_length) + Abs(deviationAt(c.rightBound_, arc_length))

centerOffset(c, arc_length) ==
    LET distances == signedDistancesAt(c, arc_length)
    IN  (distances[1] + distances[2]) \div 2

lengthReferenceLine(c) == GetTotalLength(c.referenceLine_)

\* Corridor::curvatureAt: the curvature of the reference line (symbolic)
curvatureAt(c, arc_length) == [kappa |-> c.referenceLine_.id, at |-> arc_length]

(***************************************************************************)
(* The corridors of the model.                                             *)
(***************************************************************************)
\* reference points: two-point lines of several lengths (one of them not
\* starting at the origin) and a three-point line
ReferencePoints ==
    { << <<0, 0>>, <<0, 0>> >>,
      << <<1, 0>>, <<3, 0>> >>,
      << <<0, 0>>, <<4, 0>> >>,
      << <<0, 0>>, <<20, 0>> >>,
      << <<0, 0>>, <<1, 0>>, <<3, 0>> >> }

\* reference points of the corridors built from boundary points
BoundaryReferencePoints ==
    { << <<1, 0>>, <<3, 0>> >>,
      << <<0, 0>>, <<1, 0>>, <<3, 0>> >> }

FixedDistancesLeft == {0, 8}
FixedDistancesRight == {0, 6}

\* Cartesian boundary points; a right boundary on the left of the reference
\* line and a left boundary crossing it are sign inversions
LeftBoundaryPoints ==
    { << <<1, 4>>, <<3, 4>> >>,
      << <<1, 4>>, <<3, 8>> >>,
      << <<1, -4>>, <<3, 4>> >>,
      << <<0, 8>>, <<1, 4>>, <<3, 4>> >> }

RightBoundaryPoints ==
    { << <<1, -4>>, <<3, -4>> >>,
      << <<1, -2>>, <<3, -6>> >>,
      << <<1, 2>>, <<3, 2>> >>,
      << <<0, -2>>, <<1, -4>>, <<3, -8>> >> }

\* the outputs a caller may hand to fillCartesianPolylines
Stale == [position |-> "stale", d |-> 0, normal |-> "stale"]
StaleOutputs == { <<<<>>, <<>>, <<>>>>, <<<<Stale>>, <<Stale, Stale>>, <<>>>> }

NoSequence ==
    /\ corridor_map = <<>>
    /\ proj = [it \in {} |-> 0]
    /\ start = 0
    /\ iter = 0
    /\ hops = 0

CorridorInit ==
    /\ \/ \E pts \in ReferencePoints, dl \in FixedDistancesLeft,
             dr \in FixedDistancesRight :
            \/ /\ corridor = CorridorFixed(1, pts, dl, dr)
               /\ built = [ctor |-> 1, dl |-> dl, dr |-> dr]
            \/ /\ corridor = CorridorFixedTangents(1, pts, "t0", "t1", dl, dr)
               /\ built = [ctor |-> 2, dl |-> dl, dr |-> dr]
       \/ \E pts \in BoundaryReferencePoints, lpts \in LeftBoundaryPoints,
             rpts \in RightBoundaryPoints :
            \/ /\ corridor = CorridorBoundaries(1, pts, lpts, rpts)
               /\ built = [ctor |-> 3]
            \/ /\ corridor = CorridorBoundariesTangents(1, pts, "t0", "t1", lpts, rpts)
               /\ built = [ctor |-> 4]
    /\ pc = "idle"
    /\ ret = NoRet
    /\ delta_l = 0
    /\ query_l = 0
    /\ \E out \in StaleOutputs :
          /\ reference_line = out[1]
          /\ left_boundary = out[2]
          /\ right_boundary = out[3]
    /\ NoSequence

ArcLengths(c) == (0 - ArcMargin) .. (lengthReferenceLine(c) + ArcMargin)

seqVars == <<corridor_map, proj, start, iter, hops>>
fillVars == <<delta_l, query_l, reference_line, left_boundary, right_boundary>>

\* a call of a Corridor query; the call returns before anything else runs
Returns(op, arg, val) ==
    /\ pc \in {"idle", "filled"}
    /\ ret' = [op |-> op, arg |-> arg, val |-> val]
    /\ UNCHANGED <<corridor, built, pc, fillVars, seqVars>>

QuerySignedDistancesAt ==
    \E s \in ArcLengths(corridor) :
        Returns("signedDistancesAt", s, signedDistancesAt(corridor, s))

QueryWidthAt ==
    \E s \in ArcLengths(corridor) : Returns("widthAt", s, widthAt(corridor, s))

QueryCenterOffset ==
    \E s \in ArcLengths(corridor) :
        Returns("centerOffset", s, centerOffset(corridor, s))

QueryLengthReferenceLine ==
    Returns("lengthReferenceLine", 0, lengthReferenceLine(corridor))

(***************************************************************************)
(* Corridor::fillCartesianPolylines, one loop iteration per step.          *)
(***************************************************************************)
\* the three points emplaced for one arc-length
Sample(c, l) ==
    LET position == GetPositionAt(c.referenceLine_, l)
        normal   == GetNormalVectorAt(c.referenceLine_, l)
        d_left   == deviationAt(c.leftBound_, l)
        d_right  == deviationAt(c.rightBound_, l)
    IN  <<Displaced(position, 0, normal), Displaced(position, d_left, normal),
          Displaced(position, d_right, normal)>>

Emplace(l) ==
    /\ reference_line' = Append(reference_line, Sample(corridor, l)[1])
    /\ left_boundary' = Append(left_boundary, Sample(corridor, l)[2])
    /\ right_boundary' = Append(right_boundary, Sample(corridor, l)[3])

\* the loop condition with < for <=
LoopConditionStrict(l, max_length) == l < max_length

\* the loop condition of the code
LoopCondition(l, max_length) == l <= max_length

\* the condition guarding the last point
LastPointCondition(l, max_length) == l > max_length

\* entry: clear the outputs, query_l = 0.0
FillBegin ==
    /\ pc \in {"idle", "filled"}
    /\ \E step \in 1..MaxStep : delta_l' = step
    /\ reference_line' = <<>>
    /\ left_boundary' = <<>>
    /\ right_boundary' = <<>>
    /\ query_l' = 0
    /\ pc' = "loop"
    /\ ret' = NoRet
    /\ UNCHANGED <<corridor, built, seqVars>>

\* one iteration of while (query_l <= max_length)
FillLoop ==
    /\ pc = "loop"
    /\ LoopCondition(query_l, lengthReferenceLine(corridor))
    /\ Emplace(query_l)
    /\ query_l' = query_l + delta_l
    /\ UNCHANGED <<corridor, built, pc, ret, delta_l, seqVars>>

\* loop exit, if (query_l > max_length) add the last point, return
FillAddLast ==
    /\ pc = "loop"
    /\ ~LoopCondition(query_l, lengthReferenceLine(corridor))
    /\ IF LastPointCondition(query_l, lengthReferenceLine(corridor))
       THEN Emplace(lengthReferenceLine(corridor))
       ELSE UNCHANGED <<reference_line, left_boundary, right_boundary>>
    /\ pc' = "filled"
    /\ UNCHANGED <<corridor, built, ret, delta_l, query_l, seqVars>>

CorridorNext ==
    \/ QuerySignedDistancesAt
    \/ QueryWidthAt
    \/ QueryCenterOffset
    \/ QueryLengthReferenceLine
    \/ FillBegin
    \/ FillLoop
    \/ FillAddLast

CorridorSpec == CorridorInit /\ [][CorridorNext]_vars

\* a call that has started runs to its end: the library is synchronous
CorridorFairSpec ==
    CorridorSpec /\ WF_vars(FillLoop) /\ WF_vars(FillAddLast)

(***************************************************************************)
(* Properties of Corridor.                                                 *)
(***************************************************************************)
\* arc-lengths at which the reference-line output was sampled
SampledArcs == [i \in 1..Len(reference_line) |-> reference_line[i].position.at]

FillPost ==
    pc = "filled" =>
        LET max_length == lengthReferenceLine(corridor)
            n == Len(reference_line)
        IN  /\ n > 0
            /\ Len(left_boundary) = n
            /\ Len(right_boundary) = n
            /\ SampledArcs[1] = 0
            /\ SampledArcs[n] = max_length
            /\ \A i \in 1..n :
                  /\ reference_line[i] = Sample(corridor, SampledArcs[i])[1]
                  /\ left_boundary[i] = Sample(corridor, SampledArcs[i])[2]
                  /\ right_boundary[i] = Sample(corridor, SampledArcs[i])[3]

\* C5: a started fillCartesianPolylines call returns, and when it has returned
\* the three outputs hold the same non-zero number of samples, all taken by
\* this call, the first at arc-length 0 and the last at the reference length
FillContract == [](FillPost) /\ ((pc = "loop") ~> (pc = "filled"))

\* C5 witness: step 7 on a reference line of length 20 (0.7 and 2.0 on a grid
\* of 0.1), outputs that held stale points: samples at 0, 7, 14 and 20
FillContractWitness ==
    /\ pc = "filled"
    /\ delta_l = 7
    /\ lengthReferenceLine(corridor) = 20
    /\ SampledArcs = <<0, 7, 14, 20>>
    /\ Len(left_boundary) = 4

\* C10: the sampled arc-lengths are strictly increasing when the reference
\* length is positive
SamplesStrictlyIncreasing ==
    (pc \in {"loop", "filled"} /\ lengthReferenceLine(corridor) > 0) =>
        \A i \in 1..(Len(reference_line) - 1) : SampledArcs[i] < SampledArcs[i + 1]

\* C8: a corridor built with fixed distances dl, dr returns (dl, -dr) from
\* signedDistancesAt and dl + dr from widthAt at every arc-length
FixedWidthEverywhere ==
    built.ctor \in {1, 2} =>
        /\ ret.op = "signedDistancesAt" => ret.val = <<built.dl, -built.dr>>
        /\ ret.op = "widthAt" => ret.val = built.dl + built.dr

\* C8 witness: distances 8 and 6 (2.0 and 1.5 on a grid of 0.25), explicit
\* tangents, queried beyond the end of the reference line
FixedWidthWitness ==
    /\ built = [ctor |-> 2, dl |-> 8, dr |-> 6]
    /\ ret.op = "signedDistancesAt"
    /\ ret.arg > lengthReferenceLine(corridor)
    /\ ret.val = <<8, -6>>
    /\ widthAt(corridor, ret.arg) = 14

\* C9: widthAt is left + |right|, centerOffset is the midpoint of left and
\* right, and the width is not negative when left >= 0, whatever the sign of right
WidthAndCenter ==
    LET d == signedDistancesAt(corridor, ret.arg)
    IN  /\ ret.op = "widthAt" =>
              /\ ret.val = d[1] + Abs(d[2])
              /\ d[1] >= 0 => ret.val >= 0
        /\ ret.op = "centerOffset" => 2 * ret.val = d[1] + d[2]

\* C9 witness: a width queried where the right deviation has the inverted sign
WidthAndCenterWitness ==
    /\ ret.op = "widthAt"
    /\ signedDistancesAt(corridor, ret.arg)[1] > 0
    /\ signedDistancesAt(corridor, ret.arg)[2] > 0
    /\ ret.val > 0

(***************************************************************************)
(* CorridorSequence: corridor_map_ is an ordered map from the start offset *)
(* of a corridor to the corridor, held as a list sorted by strictly        *)
(* increasing key; an iterator is an index into the list.                  *)
(***************************************************************************)
Begin(m) == 1
RBegin(m) == Len(m)
End(m) == Len(m) + 1
Prev(it) == it - 1
\* iter = std::prev(iter)
StepToPrevious(it) == Prev(it)
Next(it) == it + 1

\* CorridorSequence::get: the entry with the greatest key <= arc_length
get(m, arc_length) ==
    CHOOSE it \in 1..Len(m) :
        /\ m[it].first <= arc_length
        /\ it = RBegin(m) \/ m[Next(it)].first > arc_length

\* the local arc-length taken without subtracting the key
DeltaArcLengthGlobal(arc_length, key) == arc_length

\* delta_arc_length = arc_length - const_corridor_map_iter->first
DeltaArcLength(arc_length, key) == arc_length - key

SequenceSignedDistancesAt(m, arc_length) ==
    LET const_corridor_map_iter == get(m, arc_length)
        delta_arc_length ==
            DeltaArcLength(arc_length, m[const_corridor_map_iter].first)
    IN  signedDistancesAt(m[const_corridor_map_iter].second, delta_arc_length)

SequenceWidthAt(m, arc_length) ==
    LET const_corridor_map_iter == get(m, arc_length)
        delta_arc_length ==
            DeltaArcLength(arc_length, m[const_corridor_map_iter].first)
    IN  widthAt(m[const_corridor_map_iter].second, delta_arc_length)

SequenceCenterOffsetAt(m, arc_length) ==
    LET const_corridor_map_iter == get(m, arc_length)
        delta_arc_length ==
            DeltaArcLength(arc_length, m[const_corridor_map_iter].first)
    IN  centerOffset(m[const_corridor_map_iter].second, delta_arc_length)

SequenceCurvatureAt(m, arc_length) ==
    LET const_corridor_map_iter == get(m, arc_length)
        delta_arc_length ==
            DeltaArcLength(arc_length, m[const_corridor_map_iter].first)
    IN  curvatureAt(m[const_corridor_map_iter].second, delta_arc_length)

\* the total length taken from the first entry
totalLengthOfFirst(m) == m[Begin(m)].first + lengthReferenceLine(m[Begin(m)].second)

totalLength(m) == m[RBegin(m)].first + lengthReferenceLine(m[RBegin(m)].second)

(***************************************************************************)
(* CorridorSequence::getFrenetPositionWithFrame(position, iter).  One      *)
(* action is one invocation of the function.  What the reference line of a *)
(* corridor answers for a position is an input of the model: any           *)
(* arc-length from before its start to beyond its end, the same each time  *)
(* the same position is projected onto the same corridor.                  *)
(***************************************************************************)
\* no corridor projected onto yet
NoProjection == [it \in {} |-> 0]

\* corridors the running call has projected the position onto
Queried == DOMAIN proj

\* arc-lengths a reference line of the given length may answer
ProjectedArcs(length) == (0 - ArcMargin) .. (length + ArcMargin)

\* the arc-length reported from the start of the sequence
FrenetPositionWithFrameGlobal(m, it, l) ==
    [position |-> [l |-> m[it].first + l],
     frame |-> [id |-> m[it].second.referenceLine_.id]]

\* iter->second->getFrenetPositionWithFrame(position), answering arc-length l
FrenetPositionWithFrame(m, it, l) ==
    [position |-> [l |-> l], frame |-> [id |-> m[it].second.referenceLine_.id]]

\* answers the projection onto corridor `it` may give in the current call
Answers(it) ==
    IF it \in Queried
    THEN {proj[it]}
    ELSE ProjectedArcs(lengthReferenceLine(corridor_map[it].second))

\* the first test with <= for <
IsBeforeOrAtStart(m, it, l) == l <= 0 /\ it # Begin(m)

\* position_with_frame.position.l() < 0.0 && iter != corridor_map_.begin()
IsBefore(m, it, l) == l < 0 /\ it # Begin(m)

\* the second test with <= for <
IsBehindOrAtEnd(m, it, l) == lengthReferenceLine(m[it].second) <= l /\ Next(it) # End(m)

\* iter->second->lengthReferenceLine() < position_with_frame.position.l()
\*   && std::next(iter) != corridor_map_.end()
IsBehind(m, it, l) == lengthReferenceLine(m[it].second) < l /\ Next(it) # End(m)

Hop == IF hops < MaxHops THEN hops + 1 ELSE hops

\* global arc-lengths a caller asks about: from the first key to beyond the end
GlobalArcLengths(m) == m[Begin(m)].first .. (totalLength(m) + ArcMargin)

\* getFrenetPositionWithFrame(position, start_arc_length): iter = get(hint)
ResolveBegin ==
    /\ pc = "idle"
    /\ \E it \in { get(corridor_map, start_arc_length) :
                       start_arc_length \in GlobalArcLengths(corridor_map) } :
          /\ start' = it
          /\ iter' = it
    /\ proj' = NoProjection
    /\ hops' = 0
    /\ pc' = "call"
    /\ ret' = NoRet
    /\ UNCHANGED <<corridor, built, corridor_map, fillVars>>

\* the position is before the current corridor: recurse into the previous one
ResolvePrevious ==
    /\ pc = "call"
    /\ \E l \in Answers(iter) :
          /\ IsBefore(corridor_map, iter, l)
          /\ proj' = (iter :> l) @@ proj
    /\ iter' = StepToPrevious(iter)
    /\ hops' = Hop
    /\ UNCHANGED <<corridor, built, corridor_map, pc, ret, start, fillVars>>

\* the position is behind the current corridor: recurse into the next one
ResolveNext ==
    /\ pc = "call"
    /\ \E l \in Answers(iter) :
          /\ ~IsBefore(corridor_map, iter, l)
          /\ IsBehind(corridor_map, iter, l)
          /\ proj' = (iter :> l) @@ proj
    /\ iter' = Next(iter)
    /\ hops' = Hop
    /\ UNCHANGED <<corridor, built, corridor_map, pc, ret, start, fillVars>>

\* return position_with_frame; every enclosing invocation returns the value
\* of the invocation it made, unchanged
ResolveReturn ==
    /\ pc = "call"
    /\ \E l \in Answers(iter) :
          /\ ~IsBefore(corridor_map, iter, l)
          /\ ~IsBehind(corridor_map, iter, l)
          /\ proj' = (iter :> l) @@ proj
          /\ ret' = [op  |-> "getFrenetPositionWithFrame",
                     arg |-> start,
                     val |-> FrenetPositionWithFrame(corridor_map, iter, l)]
    /\ pc' = "done"
    /\ UNCHANGED <<corridor, built, corridor_map, start, iter, hops, fillVars>>

\* a call of a CorridorSequence query; it returns before anything else runs
SequenceReturns(op, arg, val) ==
    /\ pc = "idle"
    /\ pc' = "done"
    /\ ret' = [op |-> op, arg |-> arg, val |-> val]
    /\ UNCHANGED <<corridor, built, corridor_map, proj, start, iter, hops, fillVars>>

\* the caller drops the returned value; the sequence is ready for the next call
Release ==
    /\ pc = "done"
    /\ pc' = "idle"
    /\ ret' = NoRet
    /\ proj' = NoProjection
    /\ start' = 0
    /\ iter' = 0
    /\ hops' = 0
    /\ UNCHANGED <<corridor, built, corridor_map, fillVars>>

QuerySequenceSignedDistancesAt ==
    \E s \in GlobalArcLengths(corridor_map) :
        SequenceReturns("signedDistancesAt", s,
                        SequenceSignedDistancesAt(corridor_map, s))

QuerySequenceWidthAt ==
    \E s \in GlobalArcLengths(corridor_map) :
        SequenceReturns("widthAt", s, SequenceWidthAt(corridor_map, s))

QuerySequenceCenterOffsetAt ==
    \E s \in GlobalArcLengths(corridor_map) :
        SequenceReturns("centerOffsetAt", s, SequenceCenterOffsetAt(corridor_map, s))

QuerySequenceCurvatureAt ==
    \E s \in GlobalArcLengths(corridor_map) :
        SequenceReturns("curvatureAt", s, SequenceCurvatureAt(corridor_map, s))

QueryTotalLength == SequenceReturns("totalLength", 0, totalLength(corridor_map))

(***************************************************************************)
(* The sequences of the model: distinct corridors of a pool, the first key *)
(* and the gap between the end of a corridor and the key of the next one   *)
(* chosen by the caller (the code does not enforce the chaining).          *)
(***************************************************************************)
Pool ==
    << CorridorFixed(1, << <<0, 0>>, <<10, 0>> >>, 8, 6),
       CorridorBoundaries(2, << <<0, 0>>, <<5, 0>>, <<15, 0>> >>,
                          << <<0, 10>>, <<5, 20>>, <<15, 40>> >>,
                          << <<0, -10>>, <<15, -40>> >>),
       CorridorBoundariesTangents(3, << <<1, 0>>, <<3, 0>> >>, "t0", "t1",
                                  << <<1, 4>>, <<3, 8>> >>,
                                  << <<1, -2>>, <<3, -6>> >>),
       CorridorFixedTangents(4, << <<0, 0>>, <<1, 0>>, <<3, 0>> >>, "t0", "t1", 0, 6) >>

FirstKeys == {0, 1}
Gaps == {-1, 0, 1}

Arrangements ==
    UNION { { a \in [1..n -> 1..Len(Pool)] :
                \A i, j \in 1..n : a[i] = a[j] => i = j }
            : n \in 1..MaxCorridors }

RECURSIVE KeyOf(_, _, _, _)
\* key of the i-th corridor: the end of the previous corridor plus the gap
KeyOf(a, first_key, gap, i) ==
    IF i = 1 THEN first_key
    ELSE KeyOf(a, first_key, gap, i - 1)
         + lengthReferenceLine(Pool[a[i - 1]]) + gap

MakeSequence(a, first_key, gap) ==
    [i \in 1..Len(a) |-> [first |-> KeyOf(a, first_key, gap, i), second |-> Pool[a[i]]]]

SequenceInit ==
    /\ \E a \in Arrangements, first_key \in FirstKeys, gap \in Gaps :
          corridor_map = MakeSequence(a, first_key, gap)
    /\ proj = NoProjection
    /\ start = 0
    /\ iter = 0
    /\ hops = 0
    /\ pc = "idle"
    /\ ret = NoRet
    /\ corridor = Pool[1]
    /\ built = [ctor |-> 0]
    /\ delta_l = 0
    /\ query_l = 0
    /\ reference_line = <<>>
    /\ left_boundary = <<>>
    /\ right_boundary = <<>>

SequenceNext ==
    \/ QuerySequenceSignedDistancesAt
    \/ QuerySequenceWidthAt
    \/ QuerySequenceCenterOffsetAt
    \/ QuerySequenceCurvatureAt
    \/ QueryTotalLength
    \/ ResolveBegin
    \/ ResolvePrevious
    \/ ResolveNext
    \/ ResolveReturn
    \/ Release

SequenceSpec == SequenceInit /\ [][SequenceNext]_vars

\* an invocation that has started runs on: the library is synchronous
SequenceFairSpec ==
    SequenceSpec /\ WF_vars(ResolvePrevious) /\ WF_vars(ResolveNext)
                 /\ WF_vars(ResolveReturn)

(***************************************************************************)
(* Properties of CorridorSequence.                                         *)
(***************************************************************************)
Resolved == pc = "done" /\ ret.op = "getFrenetPositionWithFrame"

LengthAt(it) == lengthReferenceLine(corridor_map[it].second)

\* the direct projection of the position onto corridor `it`
DirectProjection(it) ==
    [position |-> [l |-> proj[it]],
     frame |-> [id |-> corridor_map[it].second.referenceLine_.id]]

\* neither neighbour step applies to the projection onto corridor `it`
Settled(it) ==
    /\ proj[it] >= 0 \/ it = 1
    /\ proj[it] <= LengthAt(it) \/ it = Len(corridor_map)

\* C1: a started resolution returns
ResolutionTerminates == (pc = "call") ~> (pc = "done")

\* C2: started in a corridor that projects the position before its start
\* (resp. beyond its end), resolution returns the direct projection onto the
\* previous (resp. next) corridor
NeighbourProjectionReturned ==
    Resolved =>
        /\ (start > 1 /\ proj[start] < 0) =>
              /\ (start - 1) \in Queried
              /\ ret.val = DirectProjection(start - 1)
        /\ (start < Len(corridor_map) /\ proj[start] > LengthAt(start)) =>
              /\ (start + 1) \in Queried
              /\ ret.val = DirectProjection(start + 1)

\* C2 as amended: the neighbour is the next corridor projected onto, and its
\* direct projection is what is returned when no neighbour step applies to it
SettledNeighbourProjectionReturned ==
    Resolved =>
        /\ (start > 1 /\ proj[start] < 0) =>
              /\ (start - 1) \in Queried
              /\ Settled(start - 1) => ret.val = DirectProjection(start - 1)
        /\ (start < Len(corridor_map) /\ proj[start] > LengthAt(start)) =>
              /\ (start + 1) \in Queried
              /\ Settled(start + 1) => ret.val = DirectProjection(start + 1)

\* C2 witness: started in the middle corridor of three, which projects the
\* position before its start; the first corridor projects it inside
SettledNeighbourWitness ==
    /\ Resolved
    /\ Len(corridor_map) = 3
    /\ start = 2
    /\ proj[2] < 0
    /\ proj[1] > 0
    /\ proj[1] < LengthAt(1)
    /\ ret.val = DirectProjection(1)

\* C3: what resolution returns is the unchanged direct projection onto a
\* corridor to which neither neighbour step applies; when that holds of the
\* corridor the hint selected, no other corridor is projected onto
SettledProjectionReturned ==
    Resolved =>
        /\ \E c \in Queried : Settled(c) /\ ret.val = DirectProjection(c)
        /\ (0 <= proj[start] /\ proj[start] <= LengthAt(start)) =>
              /\ ret.val = DirectProjection(start)
              /\ Queried = {start}

\* C3 witness: the middle corridor of three projects the position onto its
\* very start, and is the only corridor projected onto
SettledProjectionWitness ==
    /\ Resolved
    /\ Len(corridor_map) = 3
    /\ start = 2
    /\ proj[2] = 0
    /\ Queried = {2}
    /\ ret.val = DirectProjection(2)

\* corridor A of length 10 at key 0, corridor B of length 15 at key 10
ScenarioAB == MakeSequence(<<1, 2>>, 0, 0)

\* C4: in the sequence A, B, resolved with hint 9 for a position A projects
\* beyond its end, B is projected onto; when B answers arc-length 2, exactly
\* one forward step was made and the result is B's projection, arc-length 2
TwoCorridorForwardStep ==
    (/\ corridor_map = ScenarioAB
     /\ Resolved
     /\ start = get(corridor_map, 9)
     /\ proj[start] > 10) =>
        /\ 2 \in Queried
        /\ proj[2] = 2 =>
              /\ hops = 1
              /\ Queried = {1, 2}
              /\ ret.val.position.l = 2
              /\ ret.val.frame.id = 2

\* C4 witness: the scenario has run, A answered 11 and B answered 2
TwoCorridorWitness ==
    /\ corridor_map = ScenarioAB
    /\ Resolved
    /\ start = 1
    /\ proj = <<11, 2>>
    /\ hops = 1
    /\ ret.val.position.l = 2

\* first key 0, every other key the previous key plus the previous length
Chained(m) ==
    /\ m[1].first = 0
    /\ \A i \in 1..(Len(m) - 1) :
          m[i + 1].first = m[i].first + lengthReferenceLine(m[i].second)

RECURSIVE SumOfLengths(_, _)
SumOfLengths(m, n) ==
    IF n = 0 THEN 0 ELSE SumOfLengths(m, n - 1) + lengthReferenceLine(m[n].second)

\* C6: for a chained sequence totalLength is the sum of the reference lengths
TotalLengthIsSum ==
    (pc = "done" /\ ret.op = "totalLength" /\ Chained(corridor_map)) =>
        ret.val = SumOfLengths(corridor_map, Len(corridor_map))

\* C6 witness: three chained corridors of lengths 10, 15 and 2
TotalLengthWitness ==
    /\ pc = "done"
    /\ ret.op = "totalLength"
    /\ corridor_map = MakeSequence(<<1, 2, 3>>, 0, 0)
    /\ Chained(corridor_map)
    /\ ret.val = 27

\* the entry with the greatest key <= s
Owner(m, s) ==
    CHOOSE i \in 1..Len(m) :
        /\ m[i].first <= s
        /\ \A j \in 1..Len(m) : m[j].first <= s => m[j].first <= m[i].first

\* C7: each query at a global arc-length s is the query of the corridor under
\* the greatest key k <= s, at the local arc-length s - k
SequenceDelegates ==
    (pc = "done" /\ ret.op \in {"signedDistancesAt", "widthAt", "centerOffsetAt",
                                "curvatureAt"}) =>
        LET k == Owner(corridor_map, ret.arg)
            c == corridor_map[k].second
            local == ret.arg - corridor_map[k].first
        IN  /\ ret.op = "signedDistancesAt" => ret.val = signedDistancesAt(c, local)
            /\ ret.op = "widthAt" => ret.val = widthAt(c, local)
            /\ ret.op = "centerOffsetAt" => ret.val = centerOffset(c, local)
            /\ ret.op = "curvatureAt" => ret.val = curvatureAt(c, local)

\* C7 witness: a query exactly at a junction answers with the start of the
\* later corridor, which differs from the end of the earlier one
SequenceDelegatesWitness ==
    /\ pc = "done"
    /\ ret.op = "signedDistancesAt"
    /\ \E i \in 2..Len(corridor_map) :
          /\ ret.arg = corridor_map[i].first
          /\ ret.val = signedDistancesAt(corridor_map[i].second, 0)
          /\ ret.val # signedDistancesAt(corridor_map[i - 1].second,
                                         LengthAt(i - 1))

====
